---- MODULE Spec2Model ----
(***************************************************************************)
(* Model of the beagle-lang front end.                                     *)
(*                                                                         *)
(*   TypeckVM (typeck/src/lib.rs): check, emit_notice, start_checking.     *)
(*   Lexer    (frontend/src/lexer/mod.rs): see the second half.            *)
(*                                                                         *)
(* The two stages run as separate tasks on separate channels; each has its *)
(* own specification (TypeckSpec, LexerSpec) over the same variables, the  *)
(* other stage staying idle.  ChannelSpec adds the receivers of the        *)
(* outbound channels to either stage, SharedHandleSpec the other owners of *)
(* the Lexer's token-channel handle.                                       *)
(***************************************************************************)
EXTENDS Integers, Sequences, FiniteSets, TLC

(***************************************************************************)
(* Bounds.                                                                 *)
(***************************************************************************)
\* the inbound IR channel delivers at most MaxIR instructions in one run
MaxIR == 3

\* a source text is made of at most MaxPieces pieces (see Pieces)
MaxPieces == 3

\* the other owners of the token-channel handle send at most MaxOtherSends
\* tokens in all
MaxOtherSends == 2

(***************************************************************************)
(* TypeckVM: data                                                          *)
(***************************************************************************)
\* ir::type_signature::PrimitiveType, the variants lib.rs names
PrimitiveType == {"Integer", "Float", "String", "Bool", "Unit"}

\* ir::type_signature::TypeSignature: Untyped, Primitive(p) (written as p),
\* and any other (composite) signature
TypeSignature == {"Untyped", "Composite"} \cup PrimitiveType

\* ir::hir::HIRInstruction: the opcodes lib.rs names, and any other opcode
HIRInstruction == {"Integer", "Float", "String", "Bool", "FnParam", "Halt", "Other"}

\* the signatures instructions arrive with (Unit is produced by inference)
InboundSignature == TypeSignature \ {"Unit"}

\* ir::hir::HIR {pos, sig, ins}; pos is the instruction's place in the stream
HIR(p) == [pos : {p}, sig : InboundSignature, ins : HIRInstruction]

\* a value of type HIR for "no instruction held"
NoHIR == [pos |-> 0, sig |-> "Untyped", ins |-> "Other"]

\* notices::NoticeLevel, the two levels lib.rs uses
NoticeLevel == {"Error", "Halt"}

\* BiPos::default()
DefaultPos == 0

\* the arguments of no pending emit_notice call
NoCall == [msg |-> <<"none">>, level |-> "Halt", pos |-> DefaultPos]

VARIABLES
    t_pc,          \* TypeckVM: position in start_checking / check / emit_notice
    ir_stack,      \* TypeckVM.ir_stack
    ir_rx,         \* the instructions received from ir_rx so far, in order
    ir_rx_end,     \* how ir_rx ended: "open", "None" (Ok(None)), "Disconnected" (Err)
    ir,            \* check: `ir`, the instruction being typed
    next_ir,       \* check: `next_ir`, the lookahead
    call,          \* emit_notice: the arguments of the call in progress
    notice_tx,     \* the Notices sent on notice_tx, in order
    notice_alive,  \* whether the receiver of notice_tx still exists
    typeck_tx,     \* the instructions sent on typeck_tx, in order
    flushed,       \* start_checking: how many stack entries the for loop has sent
    halt_seen,     \* check left its loop through `break` (line 71)
    check_ret,     \* the value check() returned: "none", "Ok", "Err"
    start_ret      \* the value start_checking returned: "none", "Ok"

VARIABLES
    l_pc,          \* Lexer: position in start_tokenizing / get_token / string / number
    input,         \* Lexer.input, the whole text, as a sequence of chars
    source,        \* Lexer.source, the text not yet consumed
    char_idx,      \* Lexer.char_idx
    current_pos,   \* Lexer.current_pos
    guard,         \* start_tokenizing: whether it holds the lock of token_sender
    token_tx,      \* the tokens sent through token_sender, in order
    token,         \* start_tokenizing: `token`, what get_token returned
    start_idx,     \* get_token: `start`; string, number: `start_idx`
    is_float,      \* number: `is_float`
    l_ret          \* what start_tokenizing returned: "none", "Ok", "Err", "panic"

VARIABLES
    received,      \* how many items the receivers of token_tx (the token
                   \* channel), typeck_tx and notice_tx have taken so far
    other_guard    \* whether another owner of token_sender holds its lock

cvars == <<received, other_guard>>

lvars == <<l_pc, input, source, char_idx, current_pos, guard, token_tx, token,
           start_idx, is_float, l_ret>>

tvars == <<t_pc, ir_stack, ir_rx, ir_rx_end, ir, next_ir, call, notice_tx,
           notice_alive, typeck_tx, flushed, halt_seen, check_ret, start_ret>>

vars == <<tvars, lvars, cvars>>

(***************************************************************************)
(* TypeckVM: helpers                                                       *)
(***************************************************************************)
\* the first Notice built with the origin of the second
GenericNotice_SameOrigin(c) ==
    [from |-> "Type checker", msg |-> c.msg,
     file |-> "module", level |-> c.level, pos |-> c.pos]

\* the Notice emit_notice builds first when level is Error (lines 30-36)
GenericNotice(c) ==
    [from |-> "Type checker came back with an error.", msg |-> c.msg,
     file |-> "module", level |-> c.level, pos |-> c.pos]

\* the Notice emit_notice always builds (lines 43-49)
SpecificNotice(c) ==
    [from |-> "Type checker", msg |-> c.msg,
     file |-> "module", level |-> c.level, pos |-> c.pos]

\* the literal opcode the Primitive branch accepts for p (lines 85-143);
\* "none" for a primitive of the `_` arm (line 144)
ExpectedIns(p) ==
    CASE p = "Integer" -> "Integer"
      [] p = "Float"   -> "Float"
      [] p = "String"  -> "String"
      [] OTHER         -> "none"

\* the opcode the Primitive branch matches against the expectation: `match ins`
\* (lines 86, 106, 126) is the typed instruction's own opcode
MatchedIns(cur, nxt) == cur.ins

\* the message of the Error notice (lines 94, 114, 134, 146)
MismatchMsg(p, nxt) ==
    IF ExpectedIns(p) = "none"
    THEN <<"Unexpected type", nxt.sig>>
    ELSE <<"Expected an expression of type", p, "but instead got", nxt.sig>>

\* InferSig with the Float arm tagging Float
InferSig_FloatIsFloat(nxt) ==
    CASE nxt.ins = "Integer" -> "Integer"
      [] nxt.ins = "Float"   -> "Float"
      [] nxt.ins = "String"  -> "String"
      [] nxt.ins = "Bool"    -> "Bool"
      [] OTHER               -> "Unit"

\* the signature the Untyped branch infers from the lookahead's opcode
\* (lines 165-201)
InferSig(nxt) ==
    CASE nxt.ins = "Integer" -> "Integer"
      [] nxt.ins = "Float"   -> "String"
      [] nxt.ins = "String"  -> "String"
      [] nxt.ins = "Bool"    -> "Bool"
      [] OTHER               -> "Unit"

\* the entries the Untyped branch pushes (lines 167-202)
UntypedPush(cur, nxt) ==
    << [pos |-> cur.pos, sig |-> InferSig(nxt), ins |-> cur.ins], nxt >>

\* the entry the Primitive branch pushes on a match (lines 87-91)
PrimitivePush(cur) == [pos |-> cur.pos, sig |-> cur.sig, ins |-> cur.ins]

\* the arguments of the call at line 207
HaltingCall == [msg |-> <<"Halting">>, level |-> "Halt", pos |-> DefaultPos]

\* start_checking without the is_err test
StartCheckingAfter_AlwaysFlush(r) == "flush"

\* start_checking, lines 220-224: where it goes once check() has returned r
StartCheckingAfter(r) == IF r = "Err" THEN "done" ELSE "flush"

\* the stack drained from its top
FlushItem_Reversed(stack, n) == stack[Len(stack) - n]

\* the entry the for loop of start_checking sends after n sends (line 224)
FlushItem(stack, n) == stack[n + 1]

(***************************************************************************)
(* TypeckVM: start_checking, check, emit_notice                            *)
(*                                                                         *)
(* ir_rx.recv() is a step of the environment too: it yields the next       *)
(* instruction the producer sent, Ok(None), or Err once the producer has   *)
(* dropped its end.  The receivers of typeck_tx and notice_tx belong to    *)
(* other stages.  The one of notice_tx may be gone by the time of a send,  *)
(* which emit_notice tests for (is_err): every send on notice_tx either    *)
(* succeeds or finds the receiver gone.  The receiver of typeck_tx is      *)
(* taken to exist for the whole run (a failed send panics, lines 70, 225). *)
(***************************************************************************)
\* the channels are std::sync::mpsc channels (Sender, lines 22-23 of lib.rs
\* and 28 of mod.rs): a send never waits for the receiver.  Nothing has been
\* taken from a channel when a stage starts.
NoneReceived == [token_tx |-> 0, typeck_tx |-> 0, notice_tx |-> 0]

\* the Lexer while the TypeckVM is looked at alone
LexerIdle ==
    /\ l_pc = "idle"
    /\ input = <<>>
    /\ source = <<>>
    /\ char_idx = 0
    /\ current_pos = [start |-> [line |-> 0, col |-> 0], end |-> [line |-> 0, col |-> 0]]
    /\ guard = FALSE
    /\ token_tx = <<>>
    /\ token = [type_ |-> "None", data |-> [kind |-> "None"], pos |-> [start |-> [line |-> 0, col |-> 0], end |-> [line |-> 0, col |-> 0]]]
    /\ start_idx = 0
    /\ is_float = FALSE
    /\ l_ret = "none"

\* start_checking, lines 212-218
TypeckInit ==
    /\ t_pc = "check"
    /\ ir_stack = <<>>
    /\ ir_rx = <<>>
    /\ ir_rx_end = "open"
    /\ ir = NoHIR
    /\ next_ir = NoHIR
    /\ call = NoCall
    /\ notice_tx = <<>>
    /\ notice_alive = TRUE
    /\ typeck_tx = <<>>
    /\ flushed = 0
    /\ halt_seen = FALSE
    /\ check_ret = "none"
    /\ start_ret = "none"
    /\ LexerIdle
    /\ received = NoneReceived
    /\ other_guard = FALSE

\* the TypeckVM while the Lexer is looked at alone
TypeckIdle ==
    /\ t_pc = "idle"
    /\ ir_stack = <<>>
    /\ ir_rx = <<>>
    /\ ir_rx_end = "open"
    /\ ir = NoHIR
    /\ next_ir = NoHIR
    /\ call = NoCall
    /\ notice_tx = <<>>
    /\ notice_alive = TRUE
    /\ typeck_tx = <<>>
    /\ flushed = 0
    /\ halt_seen = FALSE
    /\ check_ret = "none"
    /\ start_ret = "none"

\* recv() yields Some(h): the next instruction of the stream
RecvSome(h) ==
    /\ Len(ir_rx) < MaxIR
    /\ h \in HIR(Len(ir_rx) + 1)
    /\ ir_rx' = Append(ir_rx, h)
    /\ UNCHANGED ir_rx_end

\* check() returns r to start_checking, which returns Ok(()) at once when r is
\* Err (lines 220-222) and goes on to its for loop otherwise
CheckReturns(r) ==
    /\ check_ret' = r
    /\ t_pc' = StartCheckingAfter(r)
    /\ start_ret' = IF StartCheckingAfter(r) = "done" THEN "Ok" ELSE start_ret

\* recv() yields Ok(None) or Err: `return Ok(())` (lines 65, 82, 163), after
\* which start_checking goes on to its for loop
RecvEnd ==
    /\ \E e \in {"None", "Disconnected"} : ir_rx_end' = e
    /\ CheckReturns("Ok")
    /\ UNCHANGED <<ir_stack, ir_rx, ir, next_ir, call, notice_tx, notice_alive,
                   typeck_tx, flushed, halt_seen>>

\* the loop's recv finding the stream ended and leaving the loop by `break`
CheckRecvEnd_Break ==
    /\ t_pc = "check"
    /\ \E e \in {"None", "Disconnected"} : ir_rx_end' = e
    /\ call' = HaltingCall
    /\ t_pc' = "emit_first"
    /\ UNCHANGED <<ir_stack, ir_rx, ir, next_ir, notice_tx, notice_alive,
                   typeck_tx, flushed, halt_seen, check_ret, start_ret>>

\* lines 62-66: the loop's recv finds the stream ended
CheckRecvEnd ==
    /\ t_pc = "check"
    /\ RecvEnd

\* lines 69-72 and 207: Halt is sent on typeck_tx at once, the loop breaks and
\* emit_notice("Halting", Halt, default) is called
CheckHalt ==
    /\ t_pc = "check"
    /\ \E h \in HIR(Len(ir_rx) + 1) :
         /\ RecvSome(h)
         /\ h.ins = "Halt"
         /\ typeck_tx' = Append(typeck_tx, h)
    /\ halt_seen' = TRUE
    /\ call' = HaltingCall
    /\ t_pc' = "emit_first"
    /\ UNCHANGED <<ir_stack, ir, next_ir, notice_tx, notice_alive, flushed,
                   check_ret, start_ret>>

\* lines 75-77: a FnParam with a Primitive signature is pushed as it is
CheckFnParam ==
    /\ t_pc = "check"
    /\ \E h \in HIR(Len(ir_rx) + 1) :
         /\ RecvSome(h)
         /\ h.sig \in PrimitiveType
         /\ h.ins = "FnParam"
         /\ ir_stack' = Append(ir_stack, h)
    /\ UNCHANGED <<t_pc, ir, next_ir, call, notice_tx, notice_alive, typeck_tx,
                   flushed, halt_seen, check_ret, start_ret>>

\* line 204: so is an instruction whose signature is neither Primitive nor
\* Untyped
CheckOtherSignature ==
    /\ t_pc = "check"
    /\ \E h \in HIR(Len(ir_rx) + 1) :
         /\ RecvSome(h)
         /\ h.ins # "Halt"
         /\ h.sig \notin PrimitiveType \cup {"Untyped"}
         /\ ir_stack' = Append(ir_stack, h)
    /\ UNCHANGED <<t_pc, ir, next_ir, call, notice_tx, notice_alive, typeck_tx,
                   flushed, halt_seen, check_ret, start_ret>>

\* lines 75-78: Primitive signature, not a FnParam: go on to pull the lookahead
CheckPrimitive ==
    /\ t_pc = "check"
    /\ \E h \in HIR(Len(ir_rx) + 1) :
         /\ RecvSome(h)
         /\ h.ins \notin {"Halt", "FnParam"}
         /\ h.sig \in PrimitiveType
         /\ ir' = h
    /\ t_pc' = "prim_next"
    /\ UNCHANGED <<ir_stack, next_ir, call, notice_tx, notice_alive, typeck_tx,
                   flushed, halt_seen, check_ret, start_ret>>

\* line 159: Untyped signature: go on to pull the lookahead
CheckUntyped ==
    /\ t_pc = "check"
    /\ \E h \in HIR(Len(ir_rx) + 1) :
         /\ RecvSome(h)
         /\ h.ins # "Halt"
         /\ h.sig = "Untyped"
         /\ ir' = h
    /\ t_pc' = "untyped_next"
    /\ UNCHANGED <<ir_stack, next_ir, call, notice_tx, notice_alive, typeck_tx,
                   flushed, halt_seen, check_ret, start_ret>>

\* lines 79-83: the recv of the Primitive branch finds the stream ended
PrimitiveRecvEnd ==
    /\ t_pc = "prim_next"
    /\ RecvEnd

\* lines 160-164: the recv of the Untyped branch finds the stream ended
UntypedRecvEnd ==
    /\ t_pc = "untyped_next"
    /\ RecvEnd

\* the arms that push, pushing the lookahead behind the instruction as the
\* Untyped branch does
PrimitiveMatch_PushesLookahead ==
    /\ t_pc = "prim_next"
    /\ \E h \in HIR(Len(ir_rx) + 1) :
         /\ RecvSome(h)
         /\ ExpectedIns(ir.sig) # "none"
         /\ MatchedIns(ir, h) = ExpectedIns(ir.sig)
         /\ next_ir' = h
         /\ ir_stack' = ir_stack \o <<PrimitivePush(ir), h>>
    /\ t_pc' = "check"
    /\ UNCHANGED <<ir, call, notice_tx, notice_alive, typeck_tx, flushed,
                   halt_seen, check_ret, start_ret>>

\* lines 84-143, the arms that push: the matched opcode is the expected one
PrimitiveMatch ==
    /\ t_pc = "prim_next"
    /\ \E h \in HIR(Len(ir_rx) + 1) :
         /\ RecvSome(h)
         /\ ExpectedIns(ir.sig) # "none"
         /\ MatchedIns(ir, h) = ExpectedIns(ir.sig)
         /\ next_ir' = h
    /\ ir_stack' = Append(ir_stack, PrimitivePush(ir))
    /\ t_pc' = "check"
    /\ UNCHANGED <<ir, call, notice_tx, notice_alive, typeck_tx, flushed,
                   halt_seen, check_ret, start_ret>>

\* lines 92-101, 112-121, 132-141, 144-153: emit_notice(.., Error, ir.pos)
PrimitiveMismatch ==
    /\ t_pc = "prim_next"
    /\ \E h \in HIR(Len(ir_rx) + 1) :
         /\ RecvSome(h)
         /\ \/ ExpectedIns(ir.sig) = "none"
            \/ MatchedIns(ir, h) # ExpectedIns(ir.sig)
         /\ next_ir' = h
         /\ call' = [msg |-> MismatchMsg(ir.sig, h), level |-> "Error",
                     pos |-> ir.pos]
    /\ t_pc' = "emit_first"
    /\ UNCHANGED <<ir_stack, ir, notice_tx, notice_alive, typeck_tx, flushed,
                   halt_seen, check_ret, start_ret>>

\* lines 165-202: push the typed instruction re-tagged, then the lookahead
UntypedInfer ==
    /\ t_pc = "untyped_next"
    /\ \E h \in HIR(Len(ir_rx) + 1) :
         /\ RecvSome(h)
         /\ next_ir' = h
         /\ ir_stack' = ir_stack \o UntypedPush(ir, h)
    /\ t_pc' = "check"
    /\ UNCHANGED <<ir, call, notice_tx, notice_alive, typeck_tx, flushed,
                   halt_seen, check_ret, start_ret>>

\* what follows emit_notice returning Err: for an Error notice check returns
\* Err (lines 98, 118, 138, 150) and start_checking returns Ok(()) (line 221);
\* for the Halting notice `expect` panics (line 207)
EmitFailed ==
    /\ notice_alive' = FALSE
    /\ IF call.level = "Error"
       THEN CheckReturns("Err")
       ELSE /\ t_pc' = "panicked"
            /\ UNCHANGED <<check_ret, start_ret>>
    /\ UNCHANGED <<ir_stack, ir_rx, ir_rx_end, ir, next_ir, call, notice_tx,
                   typeck_tx, flushed, halt_seen>>

\* lines 28-41: for level Error the generic Notice is sent first
EmitFirst ==
    /\ t_pc = "emit_first"
    /\ \/ /\ call.level = "Error"
          /\ notice_alive
          /\ notice_tx' = Append(notice_tx, GenericNotice(call))
          /\ t_pc' = "emit_second"
          /\ UNCHANGED <<ir_stack, ir_rx, ir_rx_end, ir, next_ir, call,
                         notice_alive, typeck_tx, flushed, halt_seen,
                         check_ret, start_ret>>
       \/ /\ call.level = "Error"
          /\ EmitFailed
       \/ /\ call.level # "Error"
          /\ t_pc' = "emit_second"
          /\ UNCHANGED <<ir_stack, ir_rx, ir_rx_end, ir, next_ir, call,
                         notice_tx, notice_alive, typeck_tx, flushed,
                         halt_seen, check_ret, start_ret>>

\* lines 42-53: the Notice itself is sent; then check returns Err after an
\* Error notice (lines 100, 120, 140, 152) and Ok after the Halting one (208)
EmitSecond ==
    /\ t_pc = "emit_second"
    /\ \/ /\ notice_alive
          /\ notice_tx' = Append(notice_tx, SpecificNotice(call))
          /\ IF call.level = "Error"
             THEN CheckReturns("Err")
             ELSE CheckReturns("Ok")
          /\ UNCHANGED <<ir_stack, ir_rx, ir_rx_end, ir, next_ir, call,
                         notice_alive, typeck_tx, flushed, halt_seen>>
       \/ EmitFailed

\* lines 224-226: one stack entry per send, in stack order
Flush ==
    /\ t_pc = "flush"
    /\ flushed < Len(ir_stack)
    /\ typeck_tx' = Append(typeck_tx, FlushItem(ir_stack, flushed))
    /\ flushed' = flushed + 1
    /\ UNCHANGED <<t_pc, ir_stack, ir_rx, ir_rx_end, ir, next_ir, call,
                   notice_tx, notice_alive, halt_seen, check_ret, start_ret>>

\* line 229
FlushDone ==
    /\ t_pc = "flush"
    /\ flushed = Len(ir_stack)
    /\ start_ret' = "Ok"
    /\ t_pc' = "done"
    /\ UNCHANGED <<ir_stack, ir_rx, ir_rx_end, ir, next_ir, call, notice_tx,
                   notice_alive, typeck_tx, flushed, halt_seen, check_ret>>

(***************************************************************************)
(* Lexer: characters and text                                              *)
(*                                                                         *)
(* A text is a sequence of chars.  Rust indexes a &str by byte, and the    *)
(* Lexer counts chars in char_idx, so every char has its UTF-8 width.      *)
(***************************************************************************)
\* a char of two bytes that is_alphabetic (U+00E9)
WideLetter == "U+00E9"

\* a char of two bytes that is_whitespace (U+00A0, the no-break space)
WideBlank == "U+00A0"

Letters == {"a", "e", "f", "i", "l", "m", "n", "r", "t", "u", "v", "x"}

\* char::is_alphabetic, on the chars of the texts
IsAlphabetic(c) == c \in Letters \cup {WideLetter}

\* char::is_whitespace, on the chars of the texts
IsWhitespace(c) == c \in {" ", "\n", "\r", "\t", WideBlank}

\* char::is_digit(10)
IsDigit(c) == c \in {"0", "1", "2", "3", "4", "5", "6", "7", "8", "9"}

\* char::len_utf8
Width(c) == IF c \in {WideLetter, WideBlank} THEN 2 ELSE 1

\* Lexer::is_delimiter (lines 103-138): Some(type) as the type, None as "None"
\* (the backtick is written U+0060)
Delimiters ==
    [c \in {"=", "(", ")", "]", "[", "{", "}", "|", "/", "?", "\\", ";", ":",
            "'", "\"", ">", "<", ".", ",", "-", "+", "_", "*", "%", "$", "#",
            "@", "!", "&", "^", "U+0060"} |->
        CASE c = "="  -> "Equal"     [] c = "("  -> "LParen"
          [] c = ")"  -> "RParen"    [] c = "]"  -> "RBracket"
          [] c = "["  -> "LBracket"  [] c = "{"  -> "LCurly"
          [] c = "}"  -> "RCurly"    [] c = "|"  -> "Pipe"
          [] c = "/"  -> "Slash"     [] c = "?"  -> "QMark"
          [] c = "\\" -> "Backslash" [] c = ";"  -> "Semicolon"
          [] c = ":"  -> "Colon"     [] c = "'"  -> "Apost"
          [] c = "\"" -> "Quote"     [] c = ">"  -> "RAngle"
          [] c = "<"  -> "LAngle"    [] c = "."  -> "Dot"
          [] c = ","  -> "Comma"     [] c = "-"  -> "Minus"
          [] c = "+"  -> "Plus"      [] c = "_"  -> "Underscore"
          [] c = "*"  -> "Star"      [] c = "%"  -> "Percent"
          [] c = "$"  -> "Dollar"    [] c = "#"  -> "Hash"
          [] c = "@"  -> "At"        [] c = "!"  -> "Bang"
          [] c = "&"  -> "And"       [] c = "^"  -> "Caret"
          [] c = "U+0060"  -> "Tick"]

is_delimiter(c) == IF c \in DOMAIN Delimiters THEN Delimiters[c] ELSE "None"

\* IDENT_MAP (lines 9-20)
IDENT_MAP ==
    (<<"l", "e", "t">> :> "KwLet") @@
    (<<"v", "a", "l">> :> "KwVal") @@
    (<<"v", "a", "r">> :> "KwVar") @@
    (<<"m", "u", "t">> :> "KwMut") @@
    (<<"n", "a", "t", "i", "v", "e">> :> "KwNative") @@
    (<<"f", "u", "n">> :> "KwFun")

\* Lexer::is_keyword (lines 140-145)
is_keyword(identifier) ==
    IF identifier \in DOMAIN IDENT_MAP THEN IDENT_MAP[identifier] ELSE "Identifier"

\* str::len: the length of a text in bytes
RECURSIVE ByteLen(_)
ByteLen(s) == IF s = <<>> THEN 0 ELSE Width(Head(s)) + ByteLen(Tail(s))

\* str::is_char_boundary
IsCharBoundary(s, b) == \E k \in 0..Len(s) : ByteLen(SubSeq(s, 1, k)) = b

\* the number of chars of s before byte b, a char boundary
CharsBefore(s, b) == CHOOSE k \in 0..Len(s) : ByteLen(SubSeq(s, 1, k)) = b

\* str::get(a..b), with byte indices: None unless a <= b and both are char
\* boundaries of s (which bounds them by the byte length)
StrGet(s, a, b) ==
    IF a <= b /\ IsCharBoundary(s, a) /\ IsCharBoundary(s, b)
    THEN [some |-> TRUE, val |-> SubSeq(s, CharsBefore(s, a) + 1, CharsBefore(s, b))]
    ELSE [some |-> FALSE, val |-> <<>>]

\* str::trim
RECURSIVE TrimStart(_)
TrimStart(s) ==
    IF s # <<>> /\ IsWhitespace(Head(s)) THEN TrimStart(Tail(s)) ELSE s

RECURSIVE TrimEnd(_)
TrimEnd(s) ==
    IF s # <<>> /\ IsWhitespace(s[Len(s)])
    THEN TrimEnd(SubSeq(s, 1, Len(s) - 1))
    ELSE s

Trim(s) == TrimEnd(TrimStart(s))

\* isize::MAX on a 64-bit target, 9223372036854775807, as a numeral
ISIZE_MAX ==
    <<"9", "2", "2", "3", "3", "7", "2", "0", "3", "6", "8", "5", "4", "7",
      "7", "5", "8", "0", "7">>

DigitValue(c) ==
    CASE c = "0" -> 0 [] c = "1" -> 1 [] c = "2" -> 2 [] c = "3" -> 3
      [] c = "4" -> 4 [] c = "5" -> 5 [] c = "6" -> 6 [] c = "7" -> 7
      [] c = "8" -> 8 [] c = "9" -> 9

\* a text of digits without its leading zeros: the numeral of its value
RECURSIVE Numeral(_)
Numeral(s) == IF Len(s) > 1 /\ Head(s) = "0" THEN Numeral(Tail(s)) ELSE s

\* a <= b, for numerals
NumeralLeq(a, b) ==
    \/ Len(a) < Len(b)
    \/ /\ Len(a) = Len(b)
       /\ \/ a = b
          \/ \E i \in 1..Len(a) :
                /\ SubSeq(a, 1, i - 1) = SubSeq(b, 1, i - 1)
                /\ DigitValue(a[i]) < DigitValue(b[i])

\* str::parse::<isize> (line 190), on texts without a sign: Ok(value) for a
\* non-empty text of digits whose value fits, Err otherwise; the value is kept
\* as its numeral, isize being wider than the integers of the checker
ParseInt(s) ==
    IF s # <<>> /\ \A i \in 1..Len(s) : IsDigit(s[i])
    THEN IF NumeralLeq(Numeral(s), ISIZE_MAX)
         THEN [ok |-> TRUE, val |-> Numeral(s), err |-> ""]
         ELSE [ok |-> FALSE, val |-> <<>>,
               err |-> "number too large to fit in target type"]
    ELSE [ok |-> FALSE, val |-> <<>>,
          err |-> IF s = <<>> THEN "cannot parse integer from empty string"
                  ELSE "invalid digit found in string"]

\* str::parse::<f64> (line 176), on texts without sign or exponent: Ok for
\* digits with at most one '.', and at least one digit; the value is kept as
\* the digits before and after the point
ParseFloat(s) ==
    LET dots == {i \in 1..Len(s) : s[i] = "."}
    IN  IF /\ \A i \in 1..Len(s) : IsDigit(s[i]) \/ s[i] = "."
           /\ Cardinality(dots) <= 1
           /\ \E i \in 1..Len(s) : IsDigit(s[i])
        THEN LET d == IF dots = {} THEN Len(s) + 1 ELSE CHOOSE i \in dots : TRUE
             IN  [ok |-> TRUE, whole |-> SubSeq(s, 1, d - 1),
                  frac |-> SubSeq(s, d + 1, Len(s)), err |-> ""]
        ELSE [ok |-> FALSE, whole |-> <<>>, frac |-> <<>>,
              err |-> IF s = <<>> THEN "cannot parse float from empty string"
                      ELSE "invalid float literal"]

(***************************************************************************)
(* Lexer: positions, tokens, source texts                                  *)
(***************************************************************************)
\* core::pos::BiPos::default()
DefaultBiPos == [start |-> [line |-> 0, col |-> 0], end |-> [line |-> 0, col |-> 0]]

\* core::pos::BiPos::next_col: the column of start advances
next_col(p) == [p EXCEPT !.start.col = @ + 1]

\* core::pos::BiPos::next_col_end: the column of end advances
next_col_end(p) == [p EXCEPT !.end.col = @ + 1]

\* core::pos::BiPos::next_line: the line of end advances, its column resets
next_line(p) == [p EXCEPT !.end.line = @ + 1, !.end.col = 0]

\* tokens::TokenData, by variant
DataNone == [kind |-> "None"]
DataStr(text) == [kind |-> "Str", str |-> text]
DataString(text) == [kind |-> "String", string |-> text]
DataInteger(n) == [kind |-> "Integer", int |-> n]
DataFloat(w, f) == [kind |-> "Float", whole |-> w, frac |-> f]

\* tokens::LexerToken {type_, data, pos}
LexerToken(t, d, p) == [type_ |-> t, data |-> d, pos |-> p]

NoToken == LexerToken("None", DataNone, DefaultBiPos)

\* the digits of isize::MAX + 1, 9223372036854775808: a literal that does not
\* fit isize
OverflowLiteral ==
    <<"9", "2", "2", "3", "3", "7", "2", "0", "3", "6", "8", "5", "4", "7",
      "7", "5", "8", "0", "8">>

\* the pieces source texts are made of: the six reserved words, a letter, a
\* two-byte letter, a blank, a two-byte blank, a line break, a quote, a digit,
\* the point, a delimiter, a char that is none of these, and the literal that
\* overflows
Pieces ==
    DOMAIN IDENT_MAP \cup
    {<<"x">>, <<WideLetter>>, <<" ">>, <<WideBlank>>, <<"\n">>, <<"\"">>,
     <<"1">>, <<".">>, <<"=">>, <<"~">>, OverflowLiteral}

RECURSIVE Concat(_)
Concat(ps) == IF ps = <<>> THEN <<>> ELSE Head(ps) \o Concat(Tail(ps))

\* the source texts: every concatenation of at most MaxPieces pieces
Inputs == {Concat(ps) : ps \in UNION {[1..n -> Pieces] : n \in 0..MaxPieces}}

(***************************************************************************)
(* Lexer: new, start_tokenizing, get_token, skip_whitespace, string,       *)
(* number, advance, advance_end, peek                                      *)
(*                                                                         *)
(* The receiver of the token channel belongs to the next stage and is      *)
(* taken to exist for the whole run (a failed send panics, line 328).      *)
(***************************************************************************)
\* Lexer::new (lines 32-44), then the call of start_tokenizing
LexerInit ==
    /\ l_pc = "lock"
    /\ input \in Inputs
    /\ source = input
    /\ char_idx = 0
    /\ current_pos = DefaultBiPos
    /\ guard = FALSE
    /\ token_tx = <<>>
    /\ token = NoToken
    /\ start_idx = 0
    /\ is_float = FALSE
    /\ l_ret = "none"
    /\ TypeckIdle
    /\ received = NoneReceived
    /\ other_guard = FALSE

\* Lexer::peek (lines 71-76): the next char, "None" at the end of the text
peek == IF source = <<>> THEN "None" ELSE Head(source)

\* advance without line 84: the char is counted and left in the text
advance_SourceKept ==
    /\ char_idx' = char_idx + 1
    /\ source' = source
    /\ current_pos' = IF source = <<>> THEN current_pos ELSE next_col(current_pos)

\* Lexer::advance (lines 78-101): the char is consumed and counted (the count
\* grows at the end of the text too), and start's column advances for a char
advance ==
    /\ char_idx' = char_idx + 1
    /\ source' = IF source = <<>> THEN <<>> ELSE Tail(source)
    /\ current_pos' = IF source = <<>> THEN current_pos ELSE next_col(current_pos)

\* Lexer::advance_end (lines 46-69): as advance, on end's column
advance_end ==
    /\ char_idx' = char_idx + 1
    /\ source' = IF source = <<>> THEN <<>> ELSE Tail(source)
    /\ current_pos' = IF source = <<>> THEN current_pos ELSE next_col_end(current_pos)

\* a panic unwinds start_tokenizing: the guard is dropped, nothing is returned
Panics ==
    /\ l_pc' = "panicked"
    /\ l_ret' = "panic"
    /\ guard' = FALSE

\* get_token returns t to the loop of start_tokenizing (line 323)
Returns(t) ==
    /\ token' = t
    /\ l_pc' = "send"

\* the lock taken and its guard dropped at once
Lock_GuardDropped ==
    /\ l_pc = "lock"
    /\ ~guard
    /\ ~other_guard
    /\ guard' = FALSE
    /\ l_pc' = "skip_whitespace"
    /\ UNCHANGED <<input, source, char_idx, current_pos, token_tx, token,
                   start_idx, is_float, l_ret>>

\* lines 318-321: the lock of token_sender is taken, once it is free, for the
\* whole run
Lock ==
    /\ l_pc = "lock"
    /\ ~guard
    /\ ~other_guard
    /\ guard' = TRUE
    /\ l_pc' = "skip_whitespace"
    /\ UNCHANGED <<input, source, char_idx, current_pos, token_tx, token,
                   start_idx, is_float, l_ret>>

\* lines 239-248: one turn of the loop of skip_whitespace; next_line comes
\* before the advance of a line break
SkipWhitespaceStep ==
    /\ l_pc = "skip_whitespace"
    /\ peek # "None" /\ IsWhitespace(peek)
    /\ char_idx' = char_idx + 1
    /\ source' = Tail(source)
    /\ current_pos' = next_col(IF peek = "\n" THEN next_line(current_pos)
                               ELSE current_pos)
    /\ UNCHANGED <<l_pc, input, guard, token_tx, token, start_idx, is_float, l_ret>>

\* line 249: the loop is over, start collapses onto end
SkipWhitespaceEnd ==
    /\ l_pc = "skip_whitespace"
    /\ peek = "None" \/ ~IsWhitespace(peek)
    /\ current_pos' = [current_pos EXCEPT !.start = current_pos.end]
    /\ l_pc' = "get_token"
    /\ UNCHANGED <<input, source, char_idx, guard, token_tx, token, start_idx,
                   is_float, l_ret>>

\* lines 254, 309-313: nothing is left
GetTokenEof ==
    /\ l_pc = "get_token"
    /\ peek = "None"
    /\ advance
    /\ Returns(LexerToken("Eof", DataNone, current_pos'))
    /\ UNCHANGED <<input, guard, token_tx, start_idx, is_float, l_ret>>

\* lines 257-258: an alphabetic char opens an identifier
GetTokenIdentifier ==
    /\ l_pc = "get_token"
    /\ peek # "None" /\ IsAlphabetic(peek)
    /\ advance
    /\ start_idx' = char_idx'
    /\ l_pc' = "identifier"
    /\ UNCHANGED <<input, guard, token_tx, token, is_float, l_ret>>

\* lines 277-278, 210: a quote opens a string
GetTokenString ==
    /\ l_pc = "get_token"
    /\ peek = "\""
    /\ advance
    /\ start_idx' = char_idx'
    /\ l_pc' = "string"
    /\ UNCHANGED <<input, guard, token_tx, token, is_float, l_ret>>

\* lines 292, 148-149: a digit opens a number
GetTokenNumber ==
    /\ l_pc = "get_token"
    /\ peek # "None" /\ IsDigit(peek)
    /\ advance
    /\ start_idx' = char_idx'
    /\ is_float' = FALSE
    /\ l_pc' = "number"
    /\ UNCHANGED <<input, guard, token_tx, token, l_ret>>

\* lines 293-299: a delimiter is a token of its own, its text the payload
GetTokenDelimiter ==
    /\ l_pc = "get_token"
    /\ peek # "None" /\ ~IsAlphabetic(peek) /\ peek # "\"" /\ ~IsDigit(peek)
    /\ is_delimiter(peek) # "None"
    /\ advance
    /\ Returns(LexerToken(is_delimiter(peek), DataString(<<peek>>), current_pos'))
    /\ UNCHANGED <<input, guard, token_tx, start_idx, is_float, l_ret>>

\* lines 300-306: any other char
GetTokenInvalid ==
    /\ l_pc = "get_token"
    /\ peek # "None" /\ ~IsAlphabetic(peek) /\ peek # "\"" /\ ~IsDigit(peek)
    /\ is_delimiter(peek) = "None"
    /\ advance
    /\ Returns(LexerToken("Err", DataStr("Invalid character"), current_pos'))
    /\ UNCHANGED <<input, guard, token_tx, start_idx, is_float, l_ret>>

\* lines 262-265: the identifier grows by one char
IdentifierStep ==
    /\ l_pc = "identifier"
    /\ peek # "None" /\ is_delimiter(peek) = "None" /\ ~IsWhitespace(peek)
    /\ advance_end
    /\ UNCHANGED <<l_pc, input, guard, token_tx, token, start_idx, is_float, l_ret>>

\* lines 261, 266: where the identifier ends, as the loop yields it
IdentifierEnd == IF peek = "None" THEN ByteLen(input) ELSE char_idx

\* line 269: the slice of the identifier
IdentifierSlice == StrGet(input, start_idx - 1, IdentifierEnd)

\* lines 261, 266, 269-275: the loop breaks; the slice is taken by indexing,
\* which panics where get would yield None
IdentifierDone ==
    /\ l_pc = "identifier"
    /\ peek = "None" \/ is_delimiter(peek) # "None" \/ IsWhitespace(peek)
    /\ IF IdentifierSlice.some
       THEN /\ Returns(LexerToken(is_keyword(IdentifierSlice.val),
                                  DataStr(IdentifierSlice.val), current_pos))
            /\ UNCHANGED <<guard, l_ret>>
       ELSE /\ Panics
            /\ UNCHANGED token
    /\ UNCHANGED <<input, source, char_idx, current_pos, token_tx, start_idx, is_float>>

\* line 211: string() advances once more and unwraps the char
StringOpen ==
    /\ l_pc = "string"
    /\ advance
    /\ IF peek = "None"
       THEN Panics
       ELSE /\ l_pc' = "string_body"
            /\ UNCHANGED <<guard, l_ret>>
    /\ UNCHANGED <<input, token_tx, token, start_idx, is_float>>

\* lines 212-215: a char that is no quote is taken into the string
StringStep ==
    /\ l_pc = "string_body"
    /\ peek \notin {"None", "\""}
    /\ advance_end
    /\ UNCHANGED <<l_pc, input, guard, token_tx, token, start_idx, is_float, l_ret>>

\* line 220: the slice of the string, once char_idx has its last value
StringSlice(idx) == StrGet(input, start_idx, idx - 1)

\* lines 212, 216-235: a quote, or the end of the text, ends the loop
StringDone ==
    /\ l_pc = "string_body"
    /\ peek \in {"None", "\""}
    /\ advance_end
    /\ IF StringSlice(char_idx').some
       THEN Returns(LexerToken("String", DataStr(StringSlice(char_idx').val),
                               current_pos'))
       ELSE Returns(LexerToken("Err",
                DataStr("Failed to extract string from input source."),
                current_pos'))
    /\ UNCHANGED <<input, guard, token_tx, start_idx, is_float, l_ret>>

\* lines 150-155: a point or a digit is taken into the number
NumberStep ==
    /\ l_pc = "number"
    /\ peek # "None" /\ (peek = "." \/ IsDigit(peek))
    /\ is_float' = (is_float \/ peek = ".")
    /\ advance_end
    /\ UNCHANGED <<l_pc, input, guard, token_tx, token, start_idx, l_ret>>

\* line 160: the slice of the number
NumberSlice == StrGet(input, start_idx - 1, char_idx)

\* lines 160-205: the token of the number
NumberToken ==
    IF ~NumberSlice.some
    THEN LexerToken("Err", DataString("Failed to index into source"), current_pos)
    ELSE LET number == Trim(NumberSlice.val)
         IN  IF is_float
             THEN IF ParseFloat(number).ok
                  THEN LexerToken("Number",
                           DataFloat(ParseFloat(number).whole, ParseFloat(number).frac),
                           current_pos)
                  ELSE LexerToken("Err",
                           DataString(<<"Failed to parse float from source: ",
                                        ParseFloat(number).err>>),
                           current_pos)
             ELSE IF ParseInt(number).ok
                  THEN LexerToken("Number", DataInteger(ParseInt(number).val),
                                  current_pos)
                  ELSE LexerToken("Err",
                           DataString(<<"Failed to parse integer from source: ",
                                        ParseInt(number).err>>),
                           current_pos)

\* lines 156-158, 160-205: any other char, or the end of the text, ends the loop
NumberDone ==
    /\ l_pc = "number"
    /\ peek = "None" \/ (peek # "." /\ ~IsDigit(peek))
    /\ Returns(NumberToken)
    /\ UNCHANGED <<input, source, char_idx, current_pos, guard, token_tx,
                   start_idx, is_float, l_ret>>

\* the loop going on after an Err token as after any other
Send_ErrContinues ==
    /\ l_pc = "send"
    /\ guard
    /\ token_tx' = Append(token_tx, token)
    /\ IF token.type_ = "Eof"
       THEN l_pc' = "done" /\ l_ret' = "Ok" /\ guard' = FALSE
       ELSE l_pc' = "skip_whitespace" /\ UNCHANGED <<l_ret, guard>>
    /\ UNCHANGED <<input, source, char_idx, current_pos, token, start_idx, is_float>>

\* lines 326-341: the token is sent; Eof ends the run with Ok(()), Err with
\* Err(..), and the guard is dropped on return; any other token goes on.  (The
\* None arm of lines 343-346 is dead: get_token always returns Some.)
Send ==
    /\ l_pc = "send"
    /\ guard
    /\ token_tx' = Append(token_tx, token)
    /\ IF token.type_ = "Eof"
       THEN l_pc' = "done" /\ l_ret' = "Ok" /\ guard' = FALSE
       ELSE IF token.type_ = "Err"
            THEN l_pc' = "done" /\ l_ret' = "Err" /\ guard' = FALSE
            ELSE l_pc' = "skip_whitespace" /\ UNCHANGED <<l_ret, guard>>
    /\ UNCHANGED <<input, source, char_idx, current_pos, token, start_idx, is_float>>

(***************************************************************************)
(* Specifications                                                          *)
(***************************************************************************)
LexerNext ==
    \/ Lock /\ UNCHANGED <<tvars, cvars>>
    \/ SkipWhitespaceStep /\ UNCHANGED <<tvars, cvars>>
    \/ SkipWhitespaceEnd /\ UNCHANGED <<tvars, cvars>>
    \/ GetTokenEof /\ UNCHANGED <<tvars, cvars>>
    \/ GetTokenIdentifier /\ UNCHANGED <<tvars, cvars>>
    \/ GetTokenString /\ UNCHANGED <<tvars, cvars>>
    \/ GetTokenNumber /\ UNCHANGED <<tvars, cvars>>
    \/ GetTokenDelimiter /\ UNCHANGED <<tvars, cvars>>
    \/ GetTokenInvalid /\ UNCHANGED <<tvars, cvars>>
    \/ IdentifierStep /\ UNCHANGED <<tvars, cvars>>
    \/ IdentifierDone /\ UNCHANGED <<tvars, cvars>>
    \/ StringOpen /\ UNCHANGED <<tvars, cvars>>
    \/ StringStep /\ UNCHANGED <<tvars, cvars>>
    \/ StringDone /\ UNCHANGED <<tvars, cvars>>
    \/ NumberStep /\ UNCHANGED <<tvars, cvars>>
    \/ NumberDone /\ UNCHANGED <<tvars, cvars>>
    \/ Send /\ UNCHANGED <<tvars, cvars>>

LexerSpec == LexerInit /\ [][LexerNext]_vars

TypeckNext ==
    \/ CheckRecvEnd /\ UNCHANGED <<lvars, cvars>>
    \/ CheckHalt /\ UNCHANGED <<lvars, cvars>>
    \/ CheckFnParam /\ UNCHANGED <<lvars, cvars>>
    \/ CheckOtherSignature /\ UNCHANGED <<lvars, cvars>>
    \/ CheckPrimitive /\ UNCHANGED <<lvars, cvars>>
    \/ CheckUntyped /\ UNCHANGED <<lvars, cvars>>
    \/ PrimitiveRecvEnd /\ UNCHANGED <<lvars, cvars>>
    \/ UntypedRecvEnd /\ UNCHANGED <<lvars, cvars>>
    \/ PrimitiveMatch /\ UNCHANGED <<lvars, cvars>>
    \/ PrimitiveMismatch /\ UNCHANGED <<lvars, cvars>>
    \/ UntypedInfer /\ UNCHANGED <<lvars, cvars>>
    \/ EmitFirst /\ UNCHANGED <<lvars, cvars>>
    \/ EmitSecond /\ UNCHANGED <<lvars, cvars>>
    \/ Flush /\ UNCHANGED <<lvars, cvars>>
    \/ FlushDone /\ UNCHANGED <<lvars, cvars>>

TypeckSpec == TypeckInit /\ [][TypeckNext]_vars

(***************************************************************************)
(* The stages with the receivers of their outbound channels: the next      *)
(* stage takes the items of a channel in order, whenever it likes.         *)
(***************************************************************************)
\* the items of a channel sent and not yet received
InFlight(sent, taken) == Len(sent) - taken

\* the receiver of the token channel takes the next token
ReceiveToken ==
    /\ InFlight(token_tx, received.token_tx) > 0
    /\ received' = [received EXCEPT !.token_tx = @ + 1]
    /\ UNCHANGED <<tvars, lvars, other_guard>>

\* the receiver of typeck_tx takes the next instruction
ReceiveTyped ==
    /\ InFlight(typeck_tx, received.typeck_tx) > 0
    /\ received' = [received EXCEPT !.typeck_tx = @ + 1]
    /\ UNCHANGED <<tvars, lvars, other_guard>>

\* the receiver of notice_tx, while it exists, takes the next Notice
ReceiveNotice ==
    /\ notice_alive
    /\ InFlight(notice_tx, received.notice_tx) > 0
    /\ received' = [received EXCEPT !.notice_tx = @ + 1]
    /\ UNCHANGED <<tvars, lvars, other_guard>>

\* either stage is started, the other staying idle
ChannelInit == LexerInit \/ TypeckInit

ChannelNext ==
    \/ LexerNext
    \/ TypeckNext
    \/ ReceiveToken
    \/ ReceiveTyped
    \/ ReceiveNotice

ChannelSpec == ChannelInit /\ [][ChannelNext]_vars

(***************************************************************************)
(* The Lexer with other owners of its token-channel handle: token_sender   *)
(* is a pub Arc<Mutex<Sender>> (line 28), so a clone of it can be locked   *)
(* and sent through by anyone who holds one.                               *)
(***************************************************************************)
\* a token of another owner (no text of the model has the letter o)
OtherToken == LexerToken("Identifier", DataStr(<<"o">>), DefaultBiPos)

\* the tokens on the channel that another owner sent
OtherSends == {i \in 1..Len(token_tx) : token_tx[i] = OtherToken}

\* another owner locks the handle: the lock is free, and not poisoned by a
\* panic of the Lexer
OtherLock ==
    /\ ~guard
    /\ ~other_guard
    /\ l_pc # "panicked"
    /\ Cardinality(OtherSends) < MaxOtherSends
    /\ other_guard' = TRUE
    /\ UNCHANGED <<tvars, lvars, received>>

\* the other owner sends its token and drops its guard
OtherSend ==
    /\ other_guard
    /\ token_tx' = Append(token_tx, OtherToken)
    /\ other_guard' = FALSE
    /\ UNCHANGED <<tvars, received, l_pc, input, source, char_idx,
                   current_pos, guard, token, start_idx, is_float, l_ret>>

\* the texts scanned beside other owners: one piece of each kind of token,
\* so that runs of every length end by Eof, by Err and by a panic
SharedPieces ==
    {<<"x">>, <<WideLetter>>, <<" ">>, <<"\"">>, <<"1">>, <<"=">>, <<"~">>}

SharedInputs ==
    {Concat(ps) : ps \in UNION {[1..n -> SharedPieces] : n \in 0..MaxPieces}}

\* Lexer::new (lines 32-44) on one of these texts, then the call of
\* start_tokenizing
SharedHandleInit ==
    /\ l_pc = "lock"
    /\ input \in SharedInputs
    /\ source = input
    /\ char_idx = 0
    /\ current_pos = DefaultBiPos
    /\ guard = FALSE
    /\ token_tx = <<>>
    /\ token = NoToken
    /\ start_idx = 0
    /\ is_float = FALSE
    /\ l_ret = "none"
    /\ TypeckIdle
    /\ received = NoneReceived
    /\ other_guard = FALSE

SharedHandleNext ==
    \/ LexerNext
    \/ OtherLock
    \/ OtherSend

SharedHandleSpec == SharedHandleInit /\ [][SharedHandleNext]_vars


(***************************************************************************)
(* Properties of TypeckVM (checked under TypeckSpec)                       *)
(***************************************************************************)
Last(s) == s[Len(s)]

HasErrorNotice == \E i \in 1..Len(notice_tx) : notice_tx[i].level = "Error"

HasHaltingNotice ==
    \E i \in 1..Len(notice_tx) :
        notice_tx[i].level = "Halt" /\ notice_tx[i].msg = <<"Halting">>

\* check has just pulled the lookahead next_ir for the instruction ir, whose
\* signature is Primitive and which is not a FnParam
PulledPrimitiveLookahead ==
    /\ t_pc \in {"check", "emit_first"}
    /\ Len(ir_rx) >= 2
    /\ next_ir = ir_rx[Len(ir_rx)]
    /\ ir = ir_rx[Len(ir_rx) - 1]
    /\ ir.sig \in PrimitiveType
    /\ ir.ins # "FnParam"

\* C2: when start_checking has finished a successful check, what was sent on
\* typeck_tx is the operand stack in order, followed by the Halt instruction
\* if one was received: Halt is the last item sent.
C2_HaltIsSentLast ==
    (t_pc = "done" /\ check_ret = "Ok") =>
        typeck_tx = ir_stack \o (IF halt_seen THEN <<Last(ir_rx)>> ELSE <<>>)

\* C3: for a non-FnParam instruction of signature Primitive(P), P among
\* Integer, Float, String: if the lookahead pulled has the literal opcode
\* matching P, the instruction is pushed with its declared signature, no Error
\* notice is emitted and the check goes on, whatever the instruction's opcode.
C3_MatchingLookaheadIsAccepted ==
    (/\ PulledPrimitiveLookahead
     /\ ir.sig \in {"Integer", "Float", "String"}
     /\ next_ir.ins = ir.sig) =>
        /\ t_pc = "check"
        /\ Len(ir_stack) >= 1
        /\ Last(ir_stack) = ir
        /\ ~HasErrorNotice

\* C4: for a non-FnParam instruction of signature Primitive(P): if the
\* lookahead's opcode does not match P, or P is not Integer, Float or String,
\* the check calls emit_notice with severity Error and leaves the loop.
C4_MismatchingLookaheadIsRejected ==
    (/\ PulledPrimitiveLookahead
     /\ \/ ir.sig \notin {"Integer", "Float", "String"}
        \/ next_ir.ins # ir.sig) =>
        /\ t_pc = "emit_first"
        /\ call.level = "Error"

\* C5: in a run in which an Error notice has been emitted, nothing has been
\* and nothing is ever sent on typeck_tx.
C5_NoOutputOnError == HasErrorNotice => typeck_tx = <<>>

\* C5 witness: a failed run that had accumulated a stack and sent none of it
C5_Witness ==
    /\ t_pc = "done"
    /\ check_ret = "Err"
    /\ Len(notice_tx) = 2
    /\ notice_tx[2].level = "Error"
    /\ Len(ir_stack) >= 1
    /\ typeck_tx = <<>>

\* the inference table as C6 states it
C6_Table(op) ==
    CASE op = "Integer" -> "Integer"
      [] op = "Float"   -> "String"
      [] op = "String"  -> "String"
      [] op = "Bool"    -> "Bool"
      [] OTHER          -> "Unit"

\* the stream [Untyped, Integer-literal, Halt] has been checked to the end
C6_Stream ==
    /\ t_pc = "done"
    /\ Len(ir_rx) = 3
    /\ ir_rx[1].sig = "Untyped"
    /\ ir_rx[1].ins # "Halt"
    /\ ir_rx[2].ins = "Integer"
    /\ ir_rx[3].ins = "Halt"

\* C6: pulling the lookahead of an Untyped instruction appends exactly two
\* entries to the stack: the instruction re-tagged by the table (Float-literal
\* gives String), then the lookahead unchanged; and the stream [Untyped,
\* Integer-literal, Halt] forwards both and the Halt.
C6_UntypedPushesBoth ==
    /\ [][(t_pc = "untyped_next" /\ Len(ir_rx') = Len(ir_rx) + 1) =>
            ir_stack' = ir_stack \o
                <<[ir EXCEPT !.sig = C6_Table(Last(ir_rx').ins)], Last(ir_rx')>>]_vars
    /\ [](C6_Stream =>
            /\ Len(typeck_tx) = 3
            /\ {typeck_tx[i] : i \in 1..3} =
                  {[ir_rx[1] EXCEPT !.sig = "Integer"], ir_rx[2], ir_rx[3]})

\* C6 witness: the stream of the claim, with a Float-literal run beside it
C6_Witness ==
    /\ C6_Stream
    /\ Len(ir_stack) = 2
    /\ ir_stack[1].sig = "Integer"
    /\ ir_stack[2] = ir_rx[2]

C8_CleanExhaustion ==
    ir_rx_end # "open" =>
        /\ check_ret = "Ok"
        /\ ~HasErrorNotice
        /\ t_pc \in {"flush", "done"}
        /\ typeck_tx = SubSeq(ir_stack, 1, flushed)
        /\ (t_pc = "done" => typeck_tx = ir_stack /\ start_ret = "Ok")

\* C8 witness: a stream that was cut after three instructions, all forwarded
C8_Witness ==
    /\ t_pc = "done"
    /\ ir_rx_end = "Disconnected"
    /\ ~halt_seen
    /\ Len(ir_stack) >= 2
    /\ typeck_tx = ir_stack

\* a stream, as far as it has been received, is well typed when every
\* non-FnParam instruction of signature Primitive(P) in it is followed by the
\* literal of P, P being Integer, Float or String, and every Untyped one by an
\* instruction that is not the Halt sentinel (a declaration not yet followed
\* by anything has nothing to mismatch)
RECURSIVE WellTyped(_)
WellTyped(s) ==
    IF s = <<>> \/ Head(s).ins = "Halt" THEN TRUE
    ELSE IF Head(s).sig \in PrimitiveType /\ Head(s).ins # "FnParam"
    THEN \/ Len(s) = 1
         \/ /\ Head(s).sig \in {"Integer", "Float", "String"}
            /\ s[2].ins = Head(s).sig
            /\ WellTyped(SubSeq(s, 3, Len(s)))
    ELSE IF Head(s).sig = "Untyped"
    THEN \/ Len(s) = 1
         \/ /\ s[2].ins # "Halt"
            /\ WellTyped(SubSeq(s, 3, Len(s)))
    ELSE WellTyped(Tail(s))

\* the operand stack a well-typed stream leaves: a typed or inferred
\* instruction for each declaration, the lookahead too after an Untyped one
RECURSIVE C13_Stack(_)
C13_Stack(s) ==
    IF s = <<>> \/ Head(s).ins = "Halt" THEN <<>>
    ELSE IF Head(s).sig \in PrimitiveType /\ Head(s).ins # "FnParam"
    THEN IF Len(s) = 1 THEN <<>>
         ELSE <<Head(s)>> \o C13_Stack(SubSeq(s, 3, Len(s)))
    ELSE IF Head(s).sig = "Untyped"
    THEN IF Len(s) = 1 THEN <<>>
         ELSE <<[Head(s) EXCEPT !.sig = C6_Table(s[2].ins)], s[2]>>
                 \o C13_Stack(SubSeq(s, 3, Len(s)))
    ELSE <<Head(s)>> \o C13_Stack(Tail(s))

\* what a run forwards, as a function of the stream it received: the Halt
\* instruction, if the loop ended by one, and the stack
C13_Forwarded(s) ==
    (IF halt_seen THEN <<Last(s)>> ELSE <<>>) \o C13_Stack(s)

\* C13: the outcome of a finished run on a well-typed stream (one that holds
\* its Halt sentinel: the run never saw the channel end), the receiver of the
\* diagnostics being there, is a function of that stream alone, so that two
\* runs on the same stream agree: it has forwarded C13_Forwarded of the
\* stream, and its diagnostics are exactly the one Halting Notice.
C13_WellTypedRunsAgree ==
    (t_pc = "done" /\ ir_rx_end = "open" /\ notice_alive /\ WellTyped(ir_rx)) =>
        /\ typeck_tx = C13_Forwarded(ir_rx)
        /\ Len(notice_tx) = 1
        /\ notice_tx[1].level = "Halt"
        /\ notice_tx[1].msg = <<"Halting">>

\* C14: a Halt instruction is received last: once one has been received, in
\* the loop or as a lookahead, it has been forwarded on typeck_tx and no
\* further recv is made, not even one that finds the stream ended.
C14_HaltEndsTheLoop ==
    \A i \in 1..Len(ir_rx) :
        ir_rx[i].ins = "Halt" =>
            /\ i = Len(ir_rx)
            /\ ir_rx_end = "open"
            /\ \E j \in 1..Len(typeck_tx) : typeck_tx[j] = ir_rx[i]

\* C15: when check has aborted with an Error notice emitted and
\* start_checking has returned, it has returned a failure.
C15_MismatchIsReported ==
    (t_pc = "done" /\ check_ret = "Err" /\ HasErrorNotice) => start_ret = "Err"

\* the two Notices of C16 for the call in progress: the generic one and the
\* specific one, both with the module name and the position of the call
C16_Generic ==
    [from |-> "Type checker came back with an error.", msg |-> call.msg,
     file |-> "module", level |-> "Error", pos |-> call.pos]

C16_Specific ==
    [from |-> "Type checker", msg |-> call.msg, file |-> "module",
     level |-> call.level, pos |-> call.pos]

\* what a call of emit_notice sends when no send fails
C16_Full ==
    IF call.level = "Error" THEN <<C16_Generic, C16_Specific>>
    ELSE <<C16_Specific>>

\* C16: a call of emit_notice (the one call of a run) sends, in this order,
\* the generic Notice and the specific Notice when its severity is Error, and
\* the specific Notice alone otherwise, each with the module name and the
\* position given; when a send fails the call has sent only the Notices before
\* that send, sends nothing more, and returns an error (check returns Err
\* after an Error call, `expect` panics after the Halting call).
C16_EmitNotice ==
    /\ call = NoCall => notice_tx = <<>>
    /\ call # NoCall =>
          /\ t_pc = "emit_first" => notice_tx = <<>>
          /\ t_pc = "emit_second" =>
                notice_tx = SubSeq(C16_Full, 1, Len(C16_Full) - 1)
          /\ (t_pc \notin {"emit_first", "emit_second"} /\ notice_alive) =>
                notice_tx = C16_Full
          /\ ~notice_alive =>
                /\ Len(notice_tx) < Len(C16_Full)
                /\ notice_tx = SubSeq(C16_Full, 1, Len(notice_tx))
                /\ IF call.level = "Error" THEN check_ret = "Err"
                   ELSE t_pc = "panicked"

\* C16 witness: an Error call that has sent its two Notices and returned
C16_Witness ==
    /\ t_pc = "done"
    /\ call.level = "Error"
    /\ notice_alive
    /\ Len(notice_tx) = 2
    /\ notice_tx[1].from = "Type checker came back with an error."
    /\ notice_tx[2].from = "Type checker"
    /\ notice_tx[1].pos = ir.pos

\* the places in a received stream of the lookaheads the Primitive branch
\* pulled (the instruction behind a non-FnParam one of Primitive signature)
RECURSIVE C21_Lookaheads(_)
C21_Lookaheads(s) ==
    IF s = <<>> \/ Head(s).ins = "Halt" THEN {}
    ELSE IF Head(s).sig \in PrimitiveType /\ Head(s).ins # "FnParam"
    THEN IF Len(s) = 1 THEN {}
         ELSE {s[2].pos} \cup C21_Lookaheads(SubSeq(s, 3, Len(s)))
    ELSE IF Head(s).sig = "Untyped"
    THEN IF Len(s) = 1 THEN {}
         ELSE C21_Lookaheads(SubSeq(s, 3, Len(s)))
    ELSE C21_Lookaheads(Tail(s))

\* the place of the instruction, if any, that the stream ends behind while
\* its lookahead is awaited (Primitive or Untyped branch)
RECURSIVE C21_Pending(_)
C21_Pending(s) ==
    IF s = <<>> \/ Head(s).ins = "Halt" THEN {}
    ELSE IF \/ Head(s).sig \in PrimitiveType /\ Head(s).ins # "FnParam"
            \/ Head(s).sig = "Untyped"
    THEN IF Len(s) = 1 THEN {Head(s).pos}
         ELSE C21_Pending(SubSeq(s, 3, Len(s)))
    ELSE C21_Pending(Tail(s))

\* the places (pos) of the instructions of a sequence
Places(seq) == {seq[i].pos : i \in 1..Len(seq)}

\* C21: a lookahead pulled by the Primitive branch is never on the operand
\* stack nor on typeck_tx; and a successful run has forwarded exactly the
\* instructions it received other than those lookaheads and the instruction
\* whose lookahead the stream ended before: that one is dropped, the stack
\* before it is flushed, and the output can be shorter than the input.
C21_LookaheadIsDropped ==
    /\ Places(ir_stack) \cap C21_Lookaheads(ir_rx) = {}
    /\ Places(typeck_tx) \cap C21_Lookaheads(ir_rx) = {}
    /\ (t_pc = "done" /\ check_ret = "Ok") =>
          /\ Places(typeck_tx) =
                (1..Len(ir_rx)) \ (C21_Lookaheads(ir_rx) \cup C21_Pending(ir_rx))
          /\ Len(typeck_tx) = Cardinality(Places(typeck_tx))

\* C21 witness: a successful run that dropped a lookahead and, the stream
\* ending, a pending instruction, and forwarded the one entry of its stack
C21_Witness ==
    /\ t_pc = "done"
    /\ check_ret = "Ok"
    /\ C21_Lookaheads(ir_rx) # {}
    /\ C21_Pending(ir_rx) # {}
    /\ Len(typeck_tx) = 1
    /\ Len(ir_rx) = 3

(***************************************************************************)
(* Properties of the Lexer (checked under LexerSpec)                       *)
(***************************************************************************)
Terminal(t) == t.type_ \in {"Eof", "Err"}

\* the number of chars of the input consumed so far
Cursor == Len(input) - Len(source)

\* C1: whatever the input, no token is sent after a terminal token (Eof or
\* Err), and when the run of start_tokenizing is over, the stream is non-empty
\* and its last token is terminal.
C1_StreamEndsWithOneTerminal ==
    /\ \A i \in 1..Len(token_tx) - 1 : ~Terminal(token_tx[i])
    /\ l_pc \in {"done", "panicked"} =>
          Len(token_tx) >= 1 /\ Terminal(Last(token_tx))

\* the closing quote of the literal whose opening quote is the q-th char of
\* the input: the first quote after it (0 if there is none)
ClosingQuote(q) ==
    IF \E r \in q + 1..Len(input) : input[r] = "\""
    THEN CHOOSE r \in q + 1..Len(input) :
            /\ input[r] = "\""
            /\ \A j \in q + 1..r - 1 : input[j] # "\""
    ELSE 0

\* C9: when the scan of a well-formed string literal (opening quote, enclosed
\* text, possibly empty, closing quote) ends, get_token returns a String token
\* whose payload is exactly the text between the quotes, and the cursor is
\* just behind the closing quote.
C9_StringPayloadIsEnclosedText ==
    [][(/\ l_pc \in {"string", "string_body"}
        /\ l_pc' \notin {"string", "string_body"}
        /\ ClosingQuote(start_idx) # 0) =>
          /\ l_pc' = "send"
          /\ token'.type_ = "String"
          /\ token'.data =
               DataStr(SubSeq(input, start_idx + 1, ClosingQuote(start_idx) - 1))
          /\ Len(input) - Len(source') = ClosingQuote(start_idx)]_vars

\* the last char of the identifier whose first char is the q-th of the input:
\* it extends until whitespace, a delimiter or the end of the input
IdentifierLast(q) ==
    CHOOSE e \in q..Len(input) :
        /\ \A j \in q + 1..e :
              is_delimiter(input[j]) = "None" /\ ~IsWhitespace(input[j])
        /\ \/ e = Len(input)
           \/ is_delimiter(input[e + 1]) # "None"
           \/ IsWhitespace(input[e + 1])

\* the kinds of the six reserved words, as C10 lists them
C10_Kind(text) ==
    CASE text = <<"l", "e", "t">> -> "KwLet"
      [] text = <<"v", "a", "l">> -> "KwVal"
      [] text = <<"v", "a", "r">> -> "KwVar"
      [] text = <<"m", "u", "t">> -> "KwMut"
      [] text = <<"n", "a", "t", "i", "v", "e">> -> "KwNative"
      [] text = <<"f", "u", "n">> -> "KwFun"
      [] OTHER -> "Identifier"

\* C10: when the scan of an identifier ends, wherever in the input it stands,
\* get_token returns a token whose payload is exactly the identifier's text
\* and whose kind is the reserved word's kind for let, val, var, mut, native,
\* fun, and Identifier otherwise.
C10_IdentifierPayloadAndKind ==
    [][(l_pc = "identifier" /\ l_pc' # "identifier") =>
          LET text == SubSeq(input, start_idx, IdentifierLast(start_idx))
          IN  /\ l_pc' = "send"
              /\ token'.data = DataStr(text)
              /\ token'.type_ = C10_Kind(text)]_vars

\* the last char of the number whose first digit is the q-th char of the
\* input: it extends over digits and points
NumberLast(q) ==
    CHOOSE e \in q..Len(input) :
        /\ \A j \in q + 1..e : IsDigit(input[j]) \/ input[j] = "."
        /\ \/ e = Len(input)
           \/ ~(IsDigit(input[e + 1]) \/ input[e + 1] = ".")

\* the number of points of a text
Points(text) == Cardinality({i \in 1..Len(text) : text[i] = "."})

\* C11: when the scan of a number ends, wherever in the input it stands: for
\* digits without a point whose value fits isize, get_token returns a Number
\* token whose Integer payload is that value; for digits with exactly one
\* point, a Number token with a Float payload; and for a text that does not
\* parse (more than one point, or an integer that does not fit isize), an Err
\* token.
C11_NumberPayload ==
    [][(l_pc = "number" /\ l_pc' # "number") =>
          LET text == SubSeq(input, start_idx, NumberLast(start_idx))
              fits == NumeralLeq(Numeral(text), ISIZE_MAX)
          IN  /\ l_pc' = "send"
              /\ (Points(text) = 0 /\ fits) =>
                    /\ token'.type_ = "Number"
                    /\ token'.data = DataInteger(Numeral(text))
              /\ Points(text) = 1 =>
                    /\ token'.type_ = "Number"
                    /\ token'.data.kind = "Float"
              /\ (Points(text) > 1 \/ (Points(text) = 0 /\ ~fits)) =>
                    token'.type_ = "Err"]_vars

\* the document position (line, column) behind the first k chars of the input
DocPos(k) ==
    LET breaks == {j \in 1..k : input[j] = "\n"}
        last == IF breaks = {} THEN 0
                ELSE CHOOSE j \in breaks : \A i \in breaks : i <= j
    IN  [line |-> Cardinality(breaks), col |-> k - last]

\* the number of chars before a document position, -1 if the position is
\* none of the input's
OffsetOf(p) ==
    IF \E k \in 0..Len(input) : DocPos(k) = p
    THEN CHOOSE k \in 0..Len(input) : DocPos(k) = p
    ELSE -1

\* document order: line, then column
PosLeq(a, b) == a.line < b.line \/ (a.line = b.line /\ a.col <= b.col)

\* C12: the spans of the tokens sent, in order, tile the input: every span
\* runs from a position of the input to a later or equal one, it begins at or
\* behind the end of the span before it (the start of the input for the
\* first), only whitespace lies between the two, and the span of the Eof
\* token of a successful run ends at the end of the input.
C12_SpansTileTheInput ==
    /\ \A i \in 1..Len(token_tx) :
          LET a == OffsetOf(token_tx[i].pos.start)
              b == OffsetOf(token_tx[i].pos.end)
              prev == IF i = 1 THEN 0 ELSE OffsetOf(token_tx[i - 1].pos.end)
          IN  /\ a # -1 /\ b # -1
              /\ a <= b
              /\ prev <= a
              /\ \A j \in prev + 1..a : IsWhitespace(input[j])
    /\ l_ret = "Ok" => OffsetOf(Last(token_tx).pos.end) = Len(input)

\* C18: in every state end is at or after start in document order, in
\* current_pos and in the position of every token sent; and a step that
\* brings start onto end is a step of the skipping of whitespace, between
\* tokens, never one of the scan of a token.
C18_EndNotBeforeStart ==
    /\ [](/\ PosLeq(current_pos.start, current_pos.end)
          /\ \A i \in 1..Len(token_tx) :
                PosLeq(token_tx[i].pos.start, token_tx[i].pos.end))
    /\ [][(/\ current_pos'.start # current_pos.start
           /\ current_pos'.start = current_pos'.end) =>
             l_pc = "skip_whitespace"]_vars

\* C17: start_tokenizing has returned Ok exactly when the last token sent is
\* Eof, and Err exactly when the last token sent is Err; once it has returned
\* nothing more is scanned or sent.
C17_OutcomeFollowsLastToken ==
    /\ [](/\ (l_ret = "Ok") <=>
                (token_tx # <<>> /\ Last(token_tx).type_ = "Eof")
          /\ (l_ret = "Err") <=>
                (token_tx # <<>> /\ Last(token_tx).type_ = "Err")
          /\ l_ret \in {"Ok", "Err"} => l_pc = "done")
    /\ [][l_pc = "done" => UNCHANGED lvars]_vars

\* C17 witness: a run that failed on its second token or later, with text
\* left unscanned
C17_Witness ==
    /\ l_ret = "Err"
    /\ Len(token_tx) >= 2
    /\ Last(token_tx).type_ = "Err"
    /\ source # <<>>

(***************************************************************************)
(* Properties of the channels (checked under ChannelSpec)                  *)
(***************************************************************************)
\* the largest capacity a stage's longest run in the model could overrun
C19_Capacity == MaxPieces

\* C19: the channels are bounded: on the token channel, on typeck_tx and on
\* notice_tx, the items sent and not yet received never exceed the capacity
\* (a sender finding its channel full waits for the receiver).
C19_ChannelsAreBounded ==
    /\ InFlight(token_tx, received.token_tx) <= C19_Capacity
    /\ InFlight(typeck_tx, received.typeck_tx) <= C19_Capacity
    /\ InFlight(notice_tx, received.notice_tx) <= C19_Capacity

(***************************************************************************)
(* Properties of the shared handle (checked under SharedHandleSpec)        *)
(***************************************************************************)
\* C20: the Lexer and another owner never hold the lock together; the Lexer
\* holds it from before its first send until its run is over, so the tokens
\* of its run are contiguous on the channel (no token of another owner lies
\* between two of them); and it holds it no more once the run has returned.
C20_RunHoldsTheLock ==
    /\ ~(guard /\ other_guard)
    /\ l_pc \notin {"lock", "done", "panicked"} => guard
    /\ l_pc = "lock" => \A i \in 1..Len(token_tx) : i \in OtherSends
    /\ \A i, j, k \in 1..Len(token_tx) :
          (i < j /\ j < k /\ i \notin OtherSends /\ k \notin OtherSends) =>
              j \notin OtherSends
    /\ l_pc = "done" => ~guard

\* C20 witness: a finished run of two tokens or more, with a token of
\* another owner before it and one behind it
C20_Witness ==
    /\ l_pc = "done"
    /\ Len(token_tx) >= 4
    /\ 1 \in OtherSends
    /\ Len(token_tx) \in OtherSends
    /\ Cardinality(OtherSends) = 2

\* the run of start_tokenizing is over: it returned, or it unwound on a panic
C22_Over == l_pc \in {"done", "panicked"}

\* a measure of the work left: the chars left weigh more than the steps of
\* one get_token call, which are ranked in the order they are taken
C22_Variant ==
    5 * Len(source)
      + CASE l_pc = "lock" -> 7
          [] l_pc = "string" -> 6
          [] l_pc \in {"identifier", "number", "string_body"} -> 5
          [] l_pc = "send" /\ token.type_ # "Eof" -> 4
          [] l_pc = "skip_whitespace" -> 3
          [] l_pc = "get_token" -> 2
          [] l_pc = "send" /\ token.type_ = "Eof" -> 1
          [] OTHER -> 0

\* until the run is over a step can be taken; in the three loops that end in
\* a slice (lines 259-268, 212-218, 150-159) the guards of going on and of
\* breaking are written out
C22_CanStep ==
    CASE l_pc = "identifier" ->
           \/ peek # "None" /\ is_delimiter(peek) = "None" /\ ~IsWhitespace(peek)
           \/ peek = "None" \/ is_delimiter(peek) # "None" \/ IsWhitespace(peek)
      [] l_pc = "string_body" ->
           \/ peek \notin {"None", "\""}
           \/ peek \in {"None", "\""}
      [] l_pc = "number" ->
           \/ peek # "None" /\ (peek = "." \/ IsDigit(peek))
           \/ peek = "None" \/ (peek # "." /\ ~IsDigit(peek))
      [] OTHER -> ENABLED LexerNext

\* C22: the advance of get_token (line 254) consumes a char or the call
\* returns Eof; the remaining text never grows; at most Len(input) + 1 tokens
\* are sent; and the run comes to its end: until it is over a step can be
\* taken, and every step lessens the measure of the work left.
C22_ProgressAndTermination ==
    /\ [](/\ Len(token_tx) <= Len(input) + 1
          /\ C22_Variant >= 0
          /\ ~C22_Over => C22_CanStep)
    /\ [][/\ Len(source') <= Len(source)
          /\ l_pc = "get_token" =>
                \/ Len(source') < Len(source)
                \/ l_pc' = "send" /\ token'.type_ = "Eof"
          /\ C22_Variant' < C22_Variant]_vars

\* C22 witness: a run over a text of three chars that returned after sending
\* four tokens
C22_Witness ==
    /\ l_pc = "done"
    /\ Len(input) = 3
    /\ Len(token_tx) = Len(input) + 1

====
